---- MODULE Spec2Model ----
(***************************************************************************)
(* The three chat widgets of pams-chat-ui and the HTTP exchange they       *)
(* drive:                                                                  *)
(*   "transcript"  AppComponent with input/loading/messages/lastUsed       *)
(*                 (src/unnamed/part_001), posting through                 *)
(*                 ChatService.send (chat.service.ts);                     *)
(*   "chat"        ChatComponent with message/messages (chat.component.ts),*)
(*                 posting through HttpClient directly;                    *)
(*   "ask"         AppComponent with question/answer (app.component.ts),   *)
(*                 posting through ChatService.ask (src/unnamed/part_000). *)
(* One widget is bootstrapped per page; Init picks which.                  *)
(*                                                                         *)
(* A JavaScript string is a sequence of one-character strings, so that     *)
(* trim() and JSON.stringify() are computed rather than assumed.  The      *)
(* non-ASCII characters of the sources are written as named tokens         *)
(* ("emdash", "hourglass", "cross").  The values undefined and null are    *)
(* one-element sequences holding a token that is not a character.          *)
(*                                                                         *)
(* requests, event and latestOutcome are history: the requests posted so   *)
(* far, the handler that ran last, and what the response to the newest     *)
(* question of the question/answer widget made the page display.           *)
(***************************************************************************)
EXTENDS Integers, Sequences, FiniteSets, TLC

VARIABLES variant, input, loading, messages, lastUsed, message, question,
          answer, requests, unhandled, event, latestOutcome

vars == <<variant, input, loading, messages, lastUsed, message, question,
          answer, requests, unhandled, event, latestOutcome>>

(* Bound of the model: the requests one page session issues. *)
MaxRequests == 2

Variants == {"transcript", "chat", "ask"}

(* JavaScript values. *)
undefined == <<"undefined">>
null == <<"null">>
(* What the user leaves in the text box: nothing, a blank, a word, a word  *)
(* between blanks, another word.                                          *)
Drafts == {<<>>, <<" ">>, <<"a">>, <<" ", "a", " ">>, <<"b">>}
Answers == {<<"4", "2">>, <<>>}
UsedObj == <<"{", "}">>
Bodies == [answer : Answers \cup {undefined}, used : {undefined, UsedObj}]
Errs == [error : {undefined, UsedObj}]

(* String literals of the sources. *)
Dash == <<"emdash">>
ErreurAPI == <<"E", "r", "r", "e", "u", "r", " ", "A", "P", "I">>
EnCours == <<"hourglass", " ", "E", "n", " ", "c", "o", "u", "r", "s", ".", ".", ".">>
CroixErreurAPI == <<"cross", " ">> \o ErreurAPI

(* String.prototype.trim *)
IsWhiteSpace(c) == c \in {" ", "\t", "\n", "\r"}

RECURSIVE TrimStart(_)
TrimStart(s) ==
  IF s = <<>> THEN s
  ELSE IF IsWhiteSpace(Head(s)) THEN TrimStart(Tail(s)) ELSE s

RECURSIVE TrimEnd(_)
TrimEnd(s) ==
  IF s = <<>> THEN s
  ELSE IF IsWhiteSpace(s[Len(s)]) THEN TrimEnd(SubSeq(s, 1, Len(s) - 1)) ELSE s

trim(s) == TrimEnd(TrimStart(s))

(* a || b, which also replaces the empty string *)
CoalesceOr(a, b) == IF a = undefined \/ a = null \/ a = <<>> THEN b ELSE a

(* a ?? b *)
Coalesce(a, b) == IF a = undefined \/ a = null THEN b ELSE a

(* JSON.stringify(res, null, 2) of a response body: absent members are    *)
(* left out, the others are written one per line behind two spaces.       *)
JSONString(s) == <<"\"">> \o s \o <<"\"">>

JSONMember(name, json) == <<" ", " ">> \o JSONString(name) \o <<":", " ">> \o json

JSONstringify(res) ==
  LET a == IF res.answer = undefined THEN <<>>
           ELSE <<JSONMember(<<"a", "n", "s", "w", "e", "r">>, JSONString(res.answer))>>
      u == IF res.used = undefined THEN <<>>
           ELSE <<JSONMember(<<"u", "s", "e", "d">>, UsedObj)>>
      ms == a \o u
  IN  IF ms = <<>> THEN <<"{", "}">>
      ELSE IF Len(ms) = 1 THEN <<"{", "\n">> \o ms[1] \o <<"\n", "}">>
      ELSE <<"{", "\n">> \o ms[1] \o <<",", "\n">> \o ms[2] \o <<"\n", "}">>

(* Array.prototype.unshift *)
unshift(arr, x) == <<x>> \o arr

(* Array.prototype.push *)
push(arr, x) == Append(arr, x)

(* The event the page has just dispatched, with the response it carried.  *)
NoRes == [answer |-> undefined, used |-> undefined]
NoErr == [error |-> undefined]
Ev(kind, res, err) == [kind |-> kind, res |-> res, err |-> err]

(* HttpClient.post: one more request on the wire, its response not yet    *)
(* delivered.                                                             *)
post(reqs, body) == Append(reqs, [body |-> body, state |-> "pending"])

Pending == {i \in DOMAIN requests : requests[i].state = "pending"}

complete(reqs, i) == [reqs EXCEPT ![i].state = "done"]

(* ChatService.send(message, debug) of chat.service.ts *)
ChatService_send(msg, debug) == [message |-> msg, debug |-> debug]

(* ChatService.ask(message) of part_000 *)
ChatService_ask(msg) == [message |-> msg]

Init ==
  /\ variant \in Variants
  /\ input = <<>>
  /\ loading = FALSE
  /\ messages = <<>>
  /\ lastUsed = null
  /\ message = <<>>
  /\ question = <<>>
  /\ answer = <<>>
  /\ requests = <<>>
  /\ unhandled = 0
  /\ event = Ev("init", NoRes, NoErr)
  /\ latestOutcome = undefined

(***************************************************************************)
(* AppComponent of part_001 ("transcript")                                 *)
(***************************************************************************)

(* [(ngModel)]="input": the user edits the text box. *)
App_type(d) ==
  /\ variant = "transcript"
  /\ input' = d
  /\ event' = Ev("type", NoRes, NoErr)
  /\ UNCHANGED <<variant, loading, messages, lastUsed, message, question,
                 answer, requests, unhandled, latestOutcome>>

(* (ngSubmit)="send()" *)
App_send ==
  /\ variant = "transcript"
  /\ event' = Ev("send", NoRes, NoErr)
  /\ LET text == trim(input) IN
     IF text = <<>>
     THEN UNCHANGED <<variant, input, loading, messages, lastUsed, message,
                      question, answer, requests, unhandled, latestOutcome>>
     ELSE /\ Len(requests) < MaxRequests
          /\ messages' = push(messages, [role |-> "user", text |-> text])
          /\ input' = <<>>
          /\ loading' = TRUE
          /\ requests' = post(requests, ChatService_send(text, TRUE))
          /\ UNCHANGED <<variant, lastUsed, message, question, answer,
                         unhandled, latestOutcome>>

(* subscribe({ next }) *)
App_next(i, res) ==
  /\ variant = "transcript"
  /\ i \in Pending
  /\ requests' = complete(requests, i)
  /\ messages' = push(messages, [role |-> "assistant",
                                 text |-> Coalesce(res.answer, Dash)])
  /\ lastUsed' = Coalesce(res.used, null)
  /\ loading' = FALSE
  /\ event' = Ev("next", res, NoErr)
  /\ UNCHANGED <<variant, input, message, question, answer, unhandled, latestOutcome>>

(* An error handler that sends the failed message again. *)
App_error_retry(i, err) ==
  /\ variant = "transcript"
  /\ i \in Pending
  /\ requests' = post(complete(requests, i), requests[i].body)
  /\ messages' = push(messages, [role |-> "assistant", text |-> ErreurAPI])
  /\ lastUsed' = Coalesce(err.error, null)
  /\ loading' = FALSE
  /\ event' = Ev("error", NoRes, err)
  /\ UNCHANGED <<variant, input, message, question, answer, unhandled, latestOutcome>>

(* An error handler that forgets to clear the busy flag. *)
App_error_stuck(i, err) ==
  /\ variant = "transcript"
  /\ i \in Pending
  /\ requests' = complete(requests, i)
  /\ messages' = push(messages, [role |-> "assistant", text |-> ErreurAPI])
  /\ lastUsed' = Coalesce(err.error, null)
  /\ UNCHANGED loading
  /\ event' = Ev("error", NoRes, err)
  /\ UNCHANGED <<variant, input, message, question, answer, unhandled, latestOutcome>>

(* subscribe({ error }) *)
App_error(i, err) ==
  /\ variant = "transcript"
  /\ i \in Pending
  /\ requests' = complete(requests, i)
  /\ messages' = push(messages, [role |-> "assistant", text |-> ErreurAPI])
  /\ lastUsed' = Coalesce(err.error, null)
  /\ loading' = FALSE
  /\ event' = Ev("error", NoRes, err)
  /\ UNCHANGED <<variant, input, message, question, answer, unhandled, latestOutcome>>

(***************************************************************************)
(* ChatComponent of chat.component.ts ("chat")                             *)
(***************************************************************************)

(* [(ngModel)]="message" in chat.component.html *)
Chat_type(d) ==
  /\ variant = "chat"
  /\ message' = d
  /\ event' = Ev("type", NoRes, NoErr)
  /\ UNCHANGED <<variant, input, loading, messages, lastUsed, question,
                 answer, requests, unhandled, latestOutcome>>

Chat_send ==
  /\ variant = "chat"
  /\ event' = Ev("send", NoRes, NoErr)
  /\ IF trim(message) = <<>>
     THEN UNCHANGED <<variant, input, loading, messages, lastUsed, message,
                      question, answer, requests, unhandled, latestOutcome>>
     ELSE LET userMsg == message IN
          /\ Len(requests) < MaxRequests
          /\ messages' = push(messages, [role |-> "user", text |-> userMsg])
          /\ message' = <<>>
          /\ requests' = post(requests, [message |-> userMsg])
          /\ UNCHANGED <<variant, input, loading, lastUsed, question, answer,
                         unhandled, latestOutcome>>

(* subscribe(res => ...) *)
Chat_next(i, res) ==
  /\ variant = "chat"
  /\ i \in Pending
  /\ requests' = complete(requests, i)
  /\ messages' = push(messages, [role |-> "bot", text |-> res.answer])
  /\ event' = Ev("next", res, NoErr)
  /\ UNCHANGED <<variant, input, loading, lastUsed, message, question,
                 answer, unhandled, latestOutcome>>

(* subscribe() is given no error callback: the error notification of the  *)
(* request reaches no handler of the component and is reported by RxJS as *)
(* an unhandled error.                                                    *)
Chat_error(i, err) ==
  /\ variant = "chat"
  /\ i \in Pending
  /\ requests' = complete(requests, i)
  /\ unhandled' = unhandled + 1
  /\ event' = Ev("error", NoRes, err)
  /\ UNCHANGED <<variant, input, loading, messages, lastUsed, message,
                 question, answer, latestOutcome>>

(***************************************************************************)
(* AppComponent of app.component.ts ("ask")                                *)
(***************************************************************************)

(* [(ngModel)]="question" *)
Ask_type(d) ==
  /\ variant = "ask"
  /\ question' = d
  /\ event' = Ev("type", NoRes, NoErr)
  /\ UNCHANGED <<variant, input, loading, messages, lastUsed, message,
                 answer, requests, unhandled, latestOutcome>>

(* (click)="send()" *)
Ask_send ==
  /\ variant = "ask"
  /\ Len(requests) < MaxRequests
  /\ answer' = EnCours
  /\ latestOutcome' = undefined
  /\ requests' = post(requests, ChatService_ask(question))
  /\ event' = Ev("send", NoRes, NoErr)
  /\ UNCHANGED <<variant, input, loading, messages, lastUsed, message,
                 question, unhandled>>

Ask_next(i, res) ==
  /\ variant = "ask"
  /\ i \in Pending
  /\ requests' = complete(requests, i)
  /\ answer' = Coalesce(res.answer, JSONstringify(res))
  /\ latestOutcome' = IF i = Len(requests) THEN answer' ELSE latestOutcome
  /\ event' = Ev("next", res, NoErr)
  /\ UNCHANGED <<variant, input, loading, messages, lastUsed, message,
                 question, unhandled>>

Ask_error(i, err) ==
  /\ variant = "ask"
  /\ i \in Pending
  /\ requests' = complete(requests, i)
  /\ answer' = CroixErreurAPI
  /\ latestOutcome' = IF i = Len(requests) THEN answer' ELSE latestOutcome
  /\ event' = Ev("error", NoRes, err)
  /\ UNCHANGED <<variant, input, loading, messages, lastUsed, message,
                 question, unhandled>>

Next ==
  \/ \E d \in Drafts : App_type(d)
  \/ App_send
  \/ \E i \in DOMAIN requests, res \in Bodies : App_next(i, res)
  \/ \E i \in DOMAIN requests, err \in Errs : App_error(i, err)
  \/ \E d \in Drafts : Chat_type(d)
  \/ Chat_send
  \/ \E i \in DOMAIN requests, res \in Bodies : Chat_next(i, res)
  \/ \E i \in DOMAIN requests, err \in Errs : Chat_error(i, err)
  \/ \E d \in Drafts : Ask_type(d)
  \/ Ask_send
  \/ \E i \in DOMAIN requests, res \in Bodies : Ask_next(i, res)
  \/ \E i \in DOMAIN requests, err \in Errs : Ask_error(i, err)

Spec == Init /\ [][Next]_vars

(* The page that bootstraps the AppComponent of part_001. *)
AppInit == Init /\ variant = "transcript"

AppNext ==
  \/ \E d \in Drafts : App_type(d)
  \/ App_send
  \/ \E i \in DOMAIN requests, res \in Bodies : App_next(i, res)
  \/ \E i \in DOMAIN requests, err \in Errs : App_error(i, err)

(* The observable of request i notifies its subscriber: HttpClient.post   *)
(* emits the response or the error of the request, once.                  *)
AppRespond(i) ==
  \/ \E res \in Bodies : App_next(i, res)
  \/ \E err \in Errs : App_error(i, err)

(* That page under the assumption that every issued request completes. *)
FairSpec ==
  AppInit /\ [][AppNext]_vars /\ \A i \in 1..MaxRequests : WF_vars(AppRespond(i))

(***************************************************************************)
(* Vocabulary of the properties                                            *)
(***************************************************************************)

(* The widgets that keep a transcript. *)
TranscriptVariants == {"transcript", "chat"}

(* The text box of the bootstrapped widget. *)
Draft ==
  IF variant = "transcript" THEN input
  ELSE IF variant = "chat" THEN message ELSE question

(* Only the AppComponent of part_001 declares a busy flag; the two other  *)
(* components have none and never refuse or announce a pending request.   *)
BusyFlag == IF variant = "transcript" THEN loading ELSE FALSE

(* The role under which a widget files the replies. *)
AssistantRole == IF variant = "chat" THEN "bot" ELSE "assistant"

UserMessages == {k \in DOMAIN messages : messages[k].role = "user"}

(* The reply text the page shows after a response. *)
Shown == IF variant = "ask" THEN answer ELSE messages[Len(messages)].text

C1_Step ==
  variant = "transcript" /\ event'.kind = "send" /\ loading
    => requests' = requests

(***************************************************************************)
(* C1: in the widget with the busy flag, a submit made while the flag is   *)
(* true issues no request, and so at most one request is ever pending.     *)
(* send() of part_001 never reads loading; only the button is disabled.    *)
(***************************************************************************)
C1_BusySubmitIssuesNothing ==
  /\ [](variant = "transcript" => Cardinality(Pending) <= 1)
  /\ [][C1_Step]_vars

C2_BlankSubmitIsNoOp_Step ==
  event'.kind = "send" /\ trim(Draft) = <<>>
       => UNCHANGED <<messages, answer, loading, requests>>

(***************************************************************************)
(* C2: in every widget, a submit of an empty or whitespace-only draft      *)
(* changes neither the transcript, the displayed answer nor the busy flag  *)
(* and issues no request.                                                  *)
(***************************************************************************)
C2_BlankSubmitIsNoOp == [][C2_BlankSubmitIsNoOp_Step]_vars

(***************************************************************************)
(* C3: the busy flag is true exactly when a request is outstanding.        *)
(***************************************************************************)
C3_BusyIffOutstanding ==
  variant = "transcript" => (loading <=> Pending # {})

C4_FailureAppendsErrorString_Step ==
  variant \in TranscriptVariants /\ event'.kind = "error"
       => /\ messages' = Append(messages, [role |-> AssistantRole,
                                            text |-> ErreurAPI])
          /\ ~BusyFlag'
          /\ unhandled' = unhandled

(***************************************************************************)
(* C4: in every widget that keeps a transcript, a failed request is        *)
(* handled: it appends exactly one assistant message carrying the fixed    *)
(* error string and leaves the busy flag cleared.                          *)
(***************************************************************************)
C4_FailureAppendsErrorString == [][C4_FailureAppendsErrorString_Step]_vars

C5_SuccessAppendsAnswer_Step ==
  variant \in TranscriptVariants /\ event'.kind = "next"
       /\ event'.res.answer # undefined
       => /\ messages' = Append(messages, [role |-> AssistantRole,
                                            text |-> event'.res.answer])
          /\ ~BusyFlag'

(***************************************************************************)
(* C5: a successful response that carries an answer a appends exactly one  *)
(* assistant message of text a behind the unchanged earlier entries, and   *)
(* leaves the busy flag cleared.                                           *)
(***************************************************************************)
C5_SuccessAppendsAnswer == [][C5_SuccessAppendsAnswer_Step]_vars

C5_Witness ==
  /\ variant = "transcript"
  /\ event.kind = "next"
  /\ event.res.answer = <<>>
  /\ Len(messages) = 4
  /\ messages[3].role = "user"
  /\ messages[4] = [role |-> "assistant", text |-> <<>>]
  /\ ~loading

C6_MissingAnswerShowsPlaceholder_Step ==
  event'.kind = "next" /\ event'.res.answer = undefined
       => /\ variant \in TranscriptVariants
               => Len(messages') = Len(messages) + 1
          /\ Shown' # undefined
          /\ trim(Shown') # <<>>

(***************************************************************************)
(* C6: in every widget, a successful response without an answer shows a    *)
(* non-empty placeholder, never undefined and never a blank text.          *)
(***************************************************************************)
C6_MissingAnswerShowsPlaceholder == [][C6_MissingAnswerShowsPlaceholder_Step]_vars

C7_CycleEndsEmptyAndIdle_Step ==
  variant = "transcript" /\ event'.kind \in {"next", "error"}
       => input' = <<>> /\ ~loading'

(***************************************************************************)
(* C7: when a response (success or failure) ends a send cycle, the draft   *)
(* is empty and the busy flag is false.                                    *)
(***************************************************************************)
C7_CycleEndsEmptyAndIdle == [][C7_CycleEndsEmptyAndIdle_Step]_vars

C8_AcceptedSubmit_Step ==
  variant \in TranscriptVariants /\ event'.kind = "send"
       /\ trim(Draft) # <<>> /\ ~BusyFlag
       => /\ messages' = Append(messages, [role |-> "user", text |-> Draft])
          /\ Draft' = <<>>
          /\ BusyFlag'
          /\ Len(requests') = Len(requests) + 1
          /\ SubSeq(requests', 1, Len(requests)) = requests
          /\ requests'[Len(requests')].body.message = Draft
          /\ requests'[Len(requests')].state = "pending"

(***************************************************************************)
(* C8: a submit of a draft t that is non-empty after trimming, made while  *)
(* the widget is not busy, appends exactly one user message of text t,     *)
(* empties the draft, sets the busy flag and issues exactly one request    *)
(* whose message field is t.                                               *)
(***************************************************************************)
C8_AcceptedSubmit == [][C8_AcceptedSubmit_Step]_vars

C9_TranscriptAppendOnly_Step ==
  /\ Len(messages') >= Len(messages)
     /\ SubSeq(messages', 1, Len(messages)) = messages

(***************************************************************************)
(* C9: the transcript is append-only: every step leaves the transcript it  *)
(* found as an unchanged prefix of the new one.                            *)
(***************************************************************************)
C9_TranscriptAppendOnly == [][C9_TranscriptAppendOnly_Step]_vars

C9_Witness ==
  /\ variant = "transcript"
  /\ event.kind = "error"
  /\ Len(messages) = 4
  /\ messages[2].text # ErreurAPI
  /\ messages[4].text = ErreurAPI

C10_Step == event'.kind = "error" => Len(requests') = Len(requests)

(***************************************************************************)
(* C10: a failure issues no new request, and in the widgets that keep a    *)
(* transcript the number of requests issued always equals the number of    *)
(* user messages.                                                          *)
(***************************************************************************)
C10_SingleAttempt ==
  /\ [](variant \in TranscriptVariants
          => Len(requests) = Cardinality(UserMessages))
  /\ [][C10_Step]_vars

C10_Witness ==
  /\ variant = "transcript"
  /\ event.kind = "error"
  /\ Len(requests) = 2
  /\ Cardinality(UserMessages) = 2
  /\ \E k \in DOMAIN messages : messages[k].text = ErreurAPI

InputDisabled == FALSE

(* <button type="submit" [disabled]="loading"> of part_001;                *)
(* <button (click)="send()"> of app.component.ts.                          *)
SubmitDisabled == IF variant = "transcript" THEN loading ELSE FALSE

(* {{ loading ? '...' : 'Envoyer' }} of part_001; Envoyer of               *)
(* app.component.ts.                                                       *)
SubmitLabel ==
  IF variant = "transcript" THEN (IF loading THEN "..." ELSE "Envoyer")
  ELSE "Envoyer"

IdleLabel == "Envoyer"

(***************************************************************************)
(* C12: while the busy flag is true the input control is disabled and the  *)
(* submit control shows a label other than its idle label; while the flag  *)
(* is false both controls are enabled and the label is the idle one.       *)
(***************************************************************************)
C12_ControlsFollowBusy ==
  variant \in {"transcript", "ask"}
    => /\ BusyFlag => InputDisabled /\ SubmitLabel # IdleLabel
       /\ ~BusyFlag => ~InputDisabled /\ ~SubmitDisabled /\ SubmitLabel = IdleLabel

(* The replies filed in the transcript. *)
AssistantMessages == {k \in DOMAIN messages : messages[k].role = AssistantRole}

(* Request i carries the i-th user message; the reply a response to it     *)
(* appends has to be the i-th reply of the transcript.                     *)
C13_Step ==
  \A i \in DOMAIN requests :
    /\ requests[i].state = "pending"
    /\ requests'[i].state = "done"
    /\ messages' # messages
    => Cardinality(AssistantMessages') = i

C13_Alternates ==
  variant \in TranscriptVariants
    => /\ \A k \in DOMAIN messages :
            messages[k].role = IF k % 2 = 1 THEN "user" ELSE AssistantRole
       /\ (~BusyFlag /\ Pending = {}) => Len(messages) % 2 = 0

(***************************************************************************)
(* C13: the roles of the transcript alternate user, assistant, user, ...   *)
(* from the first entry on, the k-th reply answers the k-th user message,  *)
(* and an idle widget holds a transcript of even length.                   *)
(***************************************************************************)
C13_RepliesFollowQuestions == []C13_Alternates /\ [][C13_Step]_vars

(***************************************************************************)
(* C14: in the widgets that keep a transcript, the user messages are as    *)
(* many as the replies plus the requests still pending: no response is     *)
(* lost and none is filed twice.                                           *)
(***************************************************************************)
C14_NoResponseLost ==
  variant \in TranscriptVariants
    => Cardinality(UserMessages)
         = Cardinality(AssistantMessages) + Cardinality(Pending)

(***************************************************************************)
(* C15: the question/answer widget displays the in-progress placeholder    *)
(* exactly while a request is pending, and once none is pending it         *)
(* displays the outcome of the question submitted last.                    *)
(***************************************************************************)
C15_AnswerOfLatestQuestion ==
  variant = "ask"
    => /\ answer = EnCours <=> Pending # {}
       /\ (Pending = {} /\ requests # <<>>) => answer = latestOutcome
====
